---- MODULE Spec2Model ----
(***************************************************************************)
(* Off-chain governance voting of NIX Core: the GUI page                   *)
(* (qt/offchaingovernance.cpp) and the wallet RPCs (wallet/rpcwallet.cpp)  *)
(* that cast votes through the shared client g_governance and record them  *)
(* in the wallet database.                                                 *)
(***************************************************************************)
EXTENDS Integers, Sequences, FiniteSets, TLC

\* ------------------------------------------------------------------ bounds

\* Largest weight the coordination service reports in one vote record.
MaxWeight == 1
\* Largest number of transactions in the wallet.
MaxWalletTx == 1
\* Seconds the model lets the clock advance after start-up.
MaxElapsed == 4
\* Largest number of vote records the aggregator is applied to on its own.
MaxVotes == 3

\* --------------------------------------------------------------- constants

\* rpcwallet.cpp: const int64_t vote_timeframe = 46 * 60 * 60 * 24;
vote_timeframe == 46 * 60 * 60 * 24
\* qt/offchaingovernance.h (not in src/): refresh interval and filter cooldown.
UPDATE_SECONDS == 2
FILTER_COOLDOWN_SECONDS == 1
\* Clock value at which the process is constructed.
StartTime == vote_timeframe + 100

Threads == {"gui", "rpc"}
VoteIds == {"p1", "p2"}
RpcDecisions == {"1"}
GuiDecisions == {"0", "1"}
GET_PROPOSALS == "GET_PROPOSALS"
CAST_VOTE == "CAST_VOTE"

\* ------------------------------------------------------------------ wallet

\* Spending scripts the pool's transactions pay to.
\*   sA, sB  owned key-hash scripts
\*   sH      owned script of the script-hash family
\*   sF      script of another wallet
Scripts == {"sA", "sB", "sH", "sF"}

IsMine(s) == s # "sF"
IsPayToScriptHashAny(s) == s = "sH"

\* What the key store answers for the scripts of one cast: every step of the
\* signing loop succeeds (NoFault), or one step fails for one script.
SignSteps == {"IsValidDestination", "GetKeyForDestination", "GetKey", "SignCompact"}
NoFault == [script |-> "none", step |-> "none"]
KeyFaults(addrs) ==
  {NoFault} \cup [script : {addrs[i] : i \in 1 .. Len(addrs)}, step : SignSteps]
StepOk(fault, s, step) == ~(fault.script = s /\ fault.step = step)

\* The wallet's transactions are drawn from this pool; a transaction's index
\* is its position in mapWallet's iteration order.
TxPool ==
  << [coinStake |-> TRUE,  time |-> StartTime - 10,
      vout |-> <<"sA", "sH", "sA">>],
     [coinStake |-> TRUE,  time |-> StartTime - 20,
      vout |-> <<"sB", "sF", "sA">>],
     [coinStake |-> TRUE,  time |-> StartTime - vote_timeframe + 1,
      vout |-> <<"sB">>],
     [coinStake |-> FALSE, time |-> StartTime - 10,
      vout |-> <<"sB">>] >>

Wallets == {w \in SUBSET (1 .. Len(TxPool)) : Cardinality(w) <= MaxWalletTx}

SeqContains(seq, x) == \E i \in 1 .. Len(seq) : seq[i] = x

\* The inner loop without the script-hash test.
RECURSIVE CollectVoutsWithScriptHash(_, _, _)
CollectVoutsWithScriptHash(vout, i, acc) ==
  IF i > Len(vout) THEN acc
  ELSE LET s == vout[i] IN
       IF ~IsMine(s) THEN CollectVoutsWithScriptHash(vout, i + 1, acc)
       ELSE IF SeqContains(acc, s) THEN CollectVoutsWithScriptHash(vout, i + 1, acc)
       ELSE CollectVoutsWithScriptHash(vout, i + 1, Append(acc, s))

\* The inner loop without the std::find test.
RECURSIVE CollectVoutsWithRepeats(_, _, _)
CollectVoutsWithRepeats(vout, i, acc) ==
  IF i > Len(vout) THEN acc
  ELSE LET s == vout[i] IN
       IF ~IsMine(s) THEN CollectVoutsWithRepeats(vout, i + 1, acc)
       ELSE IF IsPayToScriptHashAny(s) THEN CollectVoutsWithRepeats(vout, i + 1, acc)
       ELSE CollectVoutsWithRepeats(vout, i + 1, Append(acc, s))

\* The inner loop over one transaction's outputs.
RECURSIVE CollectVouts(_, _, _)
CollectVouts(vout, i, acc) ==
  IF i > Len(vout) THEN acc
  ELSE LET s == vout[i] IN
       IF ~IsMine(s) THEN CollectVouts(vout, i + 1, acc)
       ELSE IF IsPayToScriptHashAny(s) THEN CollectVouts(vout, i + 1, acc)
       ELSE IF SeqContains(acc, s) THEN CollectVouts(vout, i + 1, acc)
       ELSE CollectVouts(vout, i + 1, Append(acc, s))

\* The loop over mapWallet of postoffchainproposals (with the time frame).
RECURSIVE RpcVotingAddresses(_, _, _, _)
RpcVotingAddresses(wallet, i, current_time, acc) ==
  IF i > Len(TxPool) THEN acc
  ELSE IF i \notin wallet THEN RpcVotingAddresses(wallet, i + 1, current_time, acc)
  ELSE LET wtx == TxPool[i] IN
       IF ~wtx.coinStake \/ wtx.time < current_time - vote_timeframe
       THEN RpcVotingAddresses(wallet, i + 1, current_time, acc)
       ELSE RpcVotingAddresses(wallet, i + 1, current_time,
                               CollectVouts(wtx.vout, 1, acc))

\* The loop over mapWallet of OffChainGovernance::vote (no time frame).
RECURSIVE GuiVotingAddresses(_, _, _)
GuiVotingAddresses(wallet, i, acc) ==
  IF i > Len(TxPool) THEN acc
  ELSE IF i \notin wallet THEN GuiVotingAddresses(wallet, i + 1, acc)
  ELSE LET wtx == TxPool[i] IN
       IF ~wtx.coinStake
       THEN GuiVotingAddresses(wallet, i + 1, acc)
       ELSE GuiVotingAddresses(wallet, i + 1, CollectVouts(wtx.vout, 1, acc))

\* ------------------------------------------------------------------ signer

EncodeDestination(s) == "addr_" \o s
EncodeBase64(vchSig) == [b64 |-> vchSig]
\* A message without the separator.
StrMessageNoSeparator(vote_id, decision) == vote_id \o decision
\* std::string strMessage = vote_id + "_" + decision;
StrMessage(vote_id, decision) == vote_id \o "_" \o decision
strMessageMagic == "strMessageMagic"
\* CHashWriter ss; ss << strMessageMagic; ss << strMessage; ss.GetHash()
GetHash(strMessage) == [hash |-> <<strMessageMagic, strMessage>>]
\* key.SignCompact(hash, vchSig), the key being that of script s
SignCompact(s, hash) == [key |-> s, signed |-> hash]

\* postMessage is a text: it is modelled as the sequence of the pieces the
\* code concatenates, the literal pieces being the literals of the source.
ArrayOpen == "["
ArrayClose == "]"
Comma == ","
BallotText(vote_id, strAddress, signature, decision) ==
  << "{\"voteid\":\"", vote_id,
     "\",\"address\":\"", strAddress,
     "\",\"signature\":\"", signature,
     "\",\"ballot\":\"", decision, "\"}" >>

\* A signing loop that writes the separator before every ballot.
AppendBallotAlwaysComma(postMessage, id, vote_id, strAddress, signature, decision) ==
  postMessage \o <<Comma>> \o BallotText(vote_id, strAddress, signature, decision)

\* if(id != 0) postMessage += ","; postMessage += "{...}";
AppendBallot(postMessage, id, vote_id, strAddress, signature, decision) ==
  (IF id # 0 THEN postMessage \o <<Comma>> ELSE postMessage)
    \o BallotText(vote_id, strAddress, signature, decision)

\* A signing loop that skips an address it cannot sign for.
RECURSIVE SignBallotsSkipping(_, _, _, _, _, _)
SignBallotsSkipping(addrs, i, vote_id, decision, fault, postMessage) ==
  IF i > Len(addrs)
  THEN [err |-> "none", postMessage |-> Append(postMessage, ArrayClose)]
  ELSE LET s == addrs[i] IN
       IF \E step \in SignSteps : ~StepOk(fault, s, step)
       THEN SignBallotsSkipping(addrs, i + 1, vote_id, decision, fault, postMessage)
       ELSE SignBallotsSkipping(addrs, i + 1, vote_id, decision, fault,
              AppendBallot(postMessage, Len(postMessage) - 1, vote_id,
                           EncodeDestination(s),
                           EncodeBase64(SignCompact(s,
                              GetHash(StrMessage(vote_id, decision)))),
                           decision))

\* The signing loop from address i on: the text built, closed by "]", or the
\* error of the first address that fails.  Every failure leaves the loop, so
\* the counter id of the code is i - 1.
RECURSIVE SignBallots(_, _, _, _, _, _)
SignBallots(addrs, i, vote_id, decision, fault, postMessage) ==
  IF i > Len(addrs)
  THEN [err |-> "none", postMessage |-> Append(postMessage, ArrayClose)]
  ELSE LET s == addrs[i] IN
       IF ~StepOk(fault, s, "IsValidDestination")
       THEN [err |-> "AddressResolutionError", postMessage |-> postMessage]
       ELSE IF ~StepOk(fault, s, "GetKeyForDestination")
       THEN [err |-> "KeyUnavailableError", postMessage |-> postMessage]
       ELSE IF ~StepOk(fault, s, "GetKey")
       THEN [err |-> "KeyUnavailableError", postMessage |-> postMessage]
       ELSE IF ~StepOk(fault, s, "SignCompact")
       THEN [err |-> "SigningError", postMessage |-> postMessage]
       ELSE SignBallots(addrs, i + 1, vote_id, decision, fault,
              AppendBallot(postMessage, i - 1, vote_id,
                           EncodeDestination(s),
                           EncodeBase64(SignCompact(s,
                              GetHash(StrMessage(vote_id, decision)))),
                           decision))

\* -------------------------------------------------------------- aggregator

Numerals == <<"0", "1", "2", "3", "4", "5", "6", "7", "8", "9">>
WeightString(n) == Numerals[n + 1]
\* std::stoi on the decimal strings the service sends.
Stoi(str) == CHOOSE n \in 0 .. Len(Numerals) - 1 : Numerals[n + 1] = str

\* The loop without the comparison of the vote identifiers.
RECURSIVE VoteWeightOfAll(_, _, _, _)
VoteWeightOfAll(votes, i, vote_id, voteWeight) ==
  IF i > Len(votes) THEN voteWeight
  ELSE VoteWeightOfAll(votes, i + 1, vote_id, voteWeight + Stoi(votes[i].weight))

\* The loop over g_governance.votes that follows a successful CAST_VOTE.
RECURSIVE VoteWeight(_, _, _, _)
VoteWeight(votes, i, vote_id, voteWeight) ==
  IF i > Len(votes) THEN voteWeight
  ELSE IF votes[i].vote_id # vote_id
       THEN VoteWeight(votes, i + 1, vote_id, voteWeight)
       ELSE VoteWeight(votes, i + 1, vote_id, voteWeight + Stoi(votes[i].weight))

\* ------------------------------------------------------------------ ledger

\* CWalletDB::ListGovernanceEntries: the stored entries.
ListGovernanceEntries(db) == db

\* The loop that looks at the first listed entry only.
FindEntryFirstOnly(govEntries, i, vote_id) ==
  IF Len(govEntries) >= 1 /\ vote_id = govEntries[1].voteID THEN 1 ELSE 0

\* The callers' loop over the listed entries: the first entry of vote_id, or 0.
RECURSIVE FindEntry(_, _, _)
FindEntry(govEntries, i, vote_id) ==
  IF i > Len(govEntries) THEN 0
  ELSE IF vote_id = govEntries[i].voteID THEN i
  ELSE FindEntry(govEntries, i + 1, vote_id)

\* GovernanceLedger.Exists: the list and the loop.
Exists(db, voteID) == FindEntry(ListGovernanceEntries(db), 1, voteID) # 0

\* A store that writes without looking.
WriteGovernanceEntryBlind(db, entry) == [db |-> Append(db, entry), err |-> "none"]

\* CWalletDB::WriteGovernanceEntry: insert-if-absent, the outcome is returned.
WriteGovernanceEntry(db, entry) ==
  IF Exists(db, entry.voteID)
  THEN [db |-> db, err |-> "DuplicateVoteError"]
  ELSE [db |-> Append(db, entry), err |-> "none"]

\* A store step that keeps only the new entry.
StoreVoteReplacing(db, vote_id, voteWeight) ==
  IF voteWeight # 0
  THEN << [voteID |-> vote_id, voteWeight |-> voteWeight] >>
  ELSE db

\* A store that writes the entry whatever the weight.
StoreVoteAnyWeight(db, vote_id, voteWeight) ==
  WriteGovernanceEntry(db, [voteID |-> vote_id, voteWeight |-> voteWeight]).db

\* What both cast paths do once the exchange reported success.
StoreVote(db, vote_id, voteWeight) ==
  IF voteWeight # 0
  THEN WriteGovernanceEntry(db, [voteID |-> vote_id, voteWeight |-> voteWeight]).db
  ELSE db

\* ------------------------------------------------------- coordination service

VoteRecords == [vote_id : VoteIds, address : {EncodeDestination("sA")},
                weight : {WeightString(n) : n \in 1 .. MaxWeight}]
\* What a CAST_VOTE response can put into the vote buffer.
VoteLists == {<<>>} \cup {<<a>> : a \in VoteRecords}
                    \cup {<<a, b>> : a \in VoteRecords, b \in VoteRecords}

\* What a GET_PROPOSALS response can put into the proposal buffer.
ProposalLists ==
  { << [name |-> "A", vote_id |-> "p1"], [name |-> "B", vote_id |-> "p2"] >>,
    << [name |-> "A", vote_id |-> "p2"] >> }

Filters == {"A"}
NoRow == "<none>"

\* ------------------------------------------------------------------- state

VARIABLES
  mapWallet,           \* the wallet's transactions (indices into TxPool)
  ledger,              \* the wallet database's governance entries
  synced,              \* ~IsInitialBlockDownload()
  now,                 \* GetTime() / std::time(0)
  g_governance,        \* the shared client: ready, statusOK, proposals, votes,
                       \* and the request in flight
  pc,                  \* where each thread stands
  loc,                 \* vote_id and decision of a thread's cast in progress
  lock,                \* the thread inside LOCK2(cs_main, cs_wallet), or "none"
  rows,                \* names shown in tableWidgetProposals
  strCurrentFilter,
  fFilterUpdated,
  nTimeFilterUpdated,
  nTimeListUpdated,    \* the function-local static; NotYet before the first call
  last                 \* what the most recent handler step reported

vars == << mapWallet, ledger, synced, now, g_governance, pc, loc,
           lock, rows, strCurrentFilter, fFilterUpdated, nTimeFilterUpdated,
           nTimeListUpdated, last >>

cacheVars == << rows, strCurrentFilter, fFilterUpdated, nTimeFilterUpdated,
                nTimeListUpdated >>

NotYet == 0 - 1
\* returned: the vote buffer holds the records the service returned for this
\* cast's own CAST_VOTE.
NoLoc == [vote_id |-> "", decision |-> "", returned |-> FALSE]
NoWeight == 0 - 1

NoRequest == [kind |-> "none", payload |-> <<>>, from |-> "none"]

\* What a handler step reports: its outcome, the weight it names (if any) and
\* the number of requests it issued.
Report(thread, op, vote_id, outcome, weight, nsent) ==
  [thread |-> thread, op |-> op, vote_id |-> vote_id,
   outcome |-> outcome, weight |-> weight, sent |-> nsent]

\* The process as constructed: the wallet database is loaded, the list page
\* has called none of its handlers.
Constructed ==
  /\ ledger = <<>>
  /\ now = StartTime
  /\ g_governance = [ready |-> TRUE, statusOK |-> FALSE,
                     proposals |-> <<>>, votes |-> <<>>, request |-> NoRequest]
  /\ pc = [t \in Threads |-> "idle"]
  /\ loc = [t \in Threads |-> NoLoc]
  /\ lock = "none"
  /\ rows = {}
  /\ strCurrentFilter = ""
  /\ fFilterUpdated = FALSE
  /\ nTimeFilterUpdated = StartTime
  /\ nTimeListUpdated = NotYet
  /\ last = Report("none", "start", "", "none", NoWeight, 0)

InitConstructed ==
  /\ mapWallet \in Wallets
  /\ synced \in BOOLEAN
  /\ Constructed

\* ------------------------------------------------------------------ client

\* The client as a handler finds it, and the requests the handler has issued.
Net == [g |-> g_governance, sent |-> 0]

\* CGovernance::SendRequests: fire-and-forget; the client is not ready until
\* the response to the request arrives.
SendRequests(n, kind, payload, from) ==
  [g |-> [n.g EXCEPT !.ready = FALSE,
                     !.request = [kind |-> kind, payload |-> payload,
                                  from |-> from]],
   sent |-> n.sent + 1]

\* The coordination service answers the request in flight.
Respond(ok, props, votes) ==
  /\ g_governance.request # NoRequest
  /\ g_governance' =
       [ready |-> TRUE, statusOK |-> ok,
        proposals |-> IF ok /\ g_governance.request.kind = GET_PROPOSALS
                      THEN props ELSE g_governance.proposals,
        votes |-> IF ok /\ g_governance.request.kind = CAST_VOTE
                  THEN votes ELSE g_governance.votes,
        request |-> NoRequest]
  /\ loc' = [t \in Threads |->
               IF ok /\ g_governance.request = [g_governance.request EXCEPT
                                                  !.kind = CAST_VOTE, !.from = t]
               THEN [loc[t] EXCEPT !.returned = TRUE]
               ELSE loc[t]]
  /\ UNCHANGED << mapWallet, ledger, synced, now, pc, lock, last >>
  /\ UNCHANGED cacheVars

ServiceResponds ==
  \/ Respond(FALSE, <<>>, <<>>)
  \/ /\ g_governance.request.kind = GET_PROPOSALS
     /\ \E props \in ProposalLists : Respond(TRUE, props, <<>>)
  \/ /\ g_governance.request.kind = CAST_VOTE
     /\ \E votes \in VoteLists : Respond(TRUE, <<>>, votes)

\* The coordination service answers a request for the proposals.
FetchResponds ==
  /\ g_governance.request.kind = GET_PROPOSALS
  /\ \/ Respond(FALSE, <<>>, <<>>)
     \/ \E props \in ProposalLists : Respond(TRUE, props, <<>>)

\* ------------------------------------------------------------ cast a vote

\* A cast that ends before any request: the client n is left as it was.
Ended(n, outcome, weight) == [outcome |-> outcome, weight |-> weight, n |-> n]

\* A submission that sends the batch a second time.
SignAndSendTwice(n, votingAddresses, vote_id, decision, fault, from) ==
  LET signed == SignBallots(votingAddresses, 1, vote_id, decision, fault, <<ArrayOpen>>)
  IN IF signed.err # "none" THEN Ended(n, signed.err, NoWeight)
     ELSE [outcome |-> "Submitted", weight |-> NoWeight,
           n |-> SendRequests(SendRequests(n, CAST_VOTE, signed.postMessage, from),
                              CAST_VOTE, signed.postMessage, from)]

\* The signing loop, then the CAST_VOTE request with the ballots.
SignAndSend(n, votingAddresses, vote_id, decision, fault, from) ==
  LET signed == SignBallots(votingAddresses, 1, vote_id, decision, fault, <<ArrayOpen>>)
  IN IF signed.err # "none" THEN Ended(n, signed.err, NoWeight)
     ELSE [outcome |-> "Submitted", weight |-> NoWeight,
           n |-> SendRequests(n, CAST_VOTE, signed.postMessage, from)]

\* postoffchainproposals without the loop over the governance entries.
RpcCastPreUnchecked(n, wallet, db, current_time, vote_id, decision, unlocked, fault) ==
  IF ~unlocked THEN Ended(n, "WalletLocked", NoWeight)
  ELSE SignAndSend(n, RpcVotingAddresses(wallet, 1, current_time, <<>>),
                   vote_id, decision, fault, "rpc")

\* postoffchainproposals up to the wait: the error it throws, or the request.
RpcCastPre(n, wallet, db, current_time, vote_id, decision, unlocked, fault) ==
  IF ~unlocked THEN Ended(n, "WalletLocked", NoWeight)
  ELSE LET govEntries == ListGovernanceEntries(db)
           idx == FindEntry(govEntries, 1, vote_id)
       IN IF idx # 0 THEN Ended(n, "AlreadyVoted", govEntries[idx].voteWeight)
          ELSE SignAndSend(n, RpcVotingAddresses(wallet, 1, current_time, <<>>),
                           vote_id, decision, fault, "rpc")

\* The vote identifier of the proposal the selected row names: the first
\* buffered proposal of that name, or a default-constructed one.
RECURSIVE SelectedVoteId(_, _, _)
SelectedVoteId(proposals, i, name) ==
  IF i > Len(proposals) THEN ""
  ELSE IF name = proposals[i].name THEN proposals[i].vote_id
  ELSE SelectedVoteId(proposals, i + 1, name)

\* OffChainGovernance::vote naming the weight of the first listed entry.
GuiCastPreFirstWeight(n, wallet, db, isSynced, sel, decision, unlockOk, confirmed, fault) ==
  IF sel = NoRow THEN Ended(n, "NoSelection", NoWeight)
  ELSE IF ~isSynced THEN Ended(n, "NotSynced", NoWeight)
  ELSE IF ~unlockOk THEN Ended(n, "UnlockCancelled", NoWeight)
  ELSE LET vote_id == SelectedVoteId(n.g.proposals, 1, sel)
           govEntries == ListGovernanceEntries(db)
           idx == FindEntry(govEntries, 1, vote_id)
       IN IF idx # 0 THEN Ended(n, "AlreadyVoted", govEntries[1].voteWeight)
          ELSE IF ~confirmed THEN Ended(n, "Declined", NoWeight)
          ELSE SignAndSend(n, GuiVotingAddresses(wallet, 1, <<>>),
                           vote_id, decision, fault, "gui")

\* OffChainGovernance::vote signing and sending before the confirmation is read.
GuiCastPreSendBeforeConfirm(n, wallet, db, isSynced, sel, decision, unlockOk, confirmed, fault) ==
  IF sel = NoRow THEN Ended(n, "NoSelection", NoWeight)
  ELSE IF ~isSynced THEN Ended(n, "NotSynced", NoWeight)
  ELSE IF ~unlockOk THEN Ended(n, "UnlockCancelled", NoWeight)
  ELSE LET vote_id == SelectedVoteId(n.g.proposals, 1, sel)
           govEntries == ListGovernanceEntries(db)
           idx == FindEntry(govEntries, 1, vote_id)
           r == SignAndSend(n, GuiVotingAddresses(wallet, 1, <<>>),
                            vote_id, decision, fault, "gui")
       IN IF idx # 0 THEN Ended(n, "AlreadyVoted", govEntries[idx].voteWeight)
          ELSE IF ~confirmed THEN [r EXCEPT !.outcome = "Declined"]
          ELSE r

\* OffChainGovernance::vote up to the wait.
GuiCastPre(n, wallet, db, isSynced, sel, decision, unlockOk, confirmed, fault) ==
  IF sel = NoRow THEN Ended(n, "NoSelection", NoWeight)
  ELSE IF ~isSynced THEN Ended(n, "NotSynced", NoWeight)
  ELSE IF ~unlockOk THEN Ended(n, "UnlockCancelled", NoWeight)
  ELSE LET vote_id == SelectedVoteId(n.g.proposals, 1, sel)
           govEntries == ListGovernanceEntries(db)
           idx == FindEntry(govEntries, 1, vote_id)
       IN IF idx # 0 THEN Ended(n, "AlreadyVoted", govEntries[idx].voteWeight)
          ELSE IF ~confirmed THEN Ended(n, "Declined", NoWeight)
          ELSE SignAndSend(n, GuiVotingAddresses(wallet, 1, <<>>),
                           vote_id, decision, fault, "gui")

\* The steps after the wait without the status check.
CastPostNoStatus(g, db, vote_id) ==
  LET voteWeight == VoteWeight(g.votes, 1, vote_id, 0)
  IN [outcome |-> "Success", weight |-> voteWeight,
      db |-> StoreVote(db, vote_id, voteWeight)]

\* The steps after the wait with the status checked after the entry is stored.
CastPostStoreFirst(g, db, vote_id) ==
  LET voteWeight == VoteWeight(g.votes, 1, vote_id, 0)
  IN IF ~g.statusOK
     THEN [outcome |-> "RequestFailed", weight |-> NoWeight,
           db |-> StoreVote(db, vote_id, voteWeight)]
     ELSE [outcome |-> "Success", weight |-> voteWeight,
           db |-> StoreVote(db, vote_id, voteWeight)]

\* Both cast paths after the wait: the status decides, then the weight.
CastPost(g, db, vote_id) ==
  IF ~g.statusOK THEN [outcome |-> "RequestFailed", weight |-> NoWeight, db |-> db]
  ELSE LET voteWeight == VoteWeight(g.votes, 1, vote_id, 0)
       IN [outcome |-> "Success", weight |-> voteWeight,
           db |-> StoreVote(db, vote_id, voteWeight)]

\* std::to_string on the small numbers of the model.
StdToString(n) == Numerals[n + 1]
\* Votes::toJSONString: the record rendered as JSON text.
toJSONString(vote) == [json |-> vote]

\* The pairs pushed into the object postoffchainproposals returns: one per
\* matching record, keyed by the record's index in the buffer.
RECURSIVE RpcVoteEntries(_, _, _, _)
RpcVoteEntries(votes, i, vote_id, end) ==
  IF i > Len(votes) THEN end
  ELSE IF votes[i].vote_id # vote_id
       THEN RpcVoteEntries(votes, i + 1, vote_id, end)
       ELSE RpcVoteEntries(votes, i + 1, vote_id,
              Append(end, [key |-> "Vote " \o StdToString(i - 1),
                           value |-> toJSONString(votes[i])]))

\* A return value that holds every record of the buffer.
RpcReturnAllVotes(g, vote_id) ==
  IF ~g.statusOK
  THEN [type |-> "string", str |-> "error, vote not casted", obj |-> <<>>]
  ELSE [type |-> "object", str |-> "",
        obj |-> [i \in 1 .. Len(g.votes) |->
                   [key |-> "Vote " \o StdToString(i - 1),
                    value |-> toJSONString(g.votes[i])]]]

\* What postoffchainproposals returns after the wait.
RpcReturn(g, vote_id) ==
  IF ~g.statusOK
  THEN [type |-> "string", str |-> "error, vote not casted", obj |-> <<>>]
  ELSE [type |-> "object", str |-> "",
        obj |-> RpcVoteEntries(g.votes, 1, vote_id, <<>>)]

\* A success message that does not say the weight.
GuiMessageWithoutWeight(g, vote_id) ==
  IF ~g.statusOK
  THEN [title |-> "Cast Vote", style |-> "MSG_ERROR",
        text |-> "Vote not successful. Please try again at a later time."]
  ELSE [title |-> "Cast Vote", style |-> "MSG_INFORMATION",
        text |-> "Successfully casted vote."]

\* The message OffChainGovernance::vote emits after the wait.
GuiMessage(g, vote_id) ==
  IF ~g.statusOK
  THEN [title |-> "Cast Vote", style |-> "MSG_ERROR",
        text |-> "Vote not successful. Please try again at a later time."]
  ELSE [title |-> "Cast Vote", style |-> "MSG_INFORMATION",
        text |-> "Successfully casted vote. Vote weight added: "
                 \o StdToString(VoteWeight(g.votes, 1, vote_id, 0))]

\* RPC postoffchainproposals vote_id decision: from the call to the request.
RpcCastBegin(vote_id, decision, unlocked, fault) ==
  /\ pc["rpc"] = "idle"
  /\ lock = "none"
  /\ \E r \in {RpcCastPre(Net, mapWallet, ledger, now, vote_id, decision,
                           unlocked, fault)} :
        /\ last' = Report("rpc", "postoffchainproposals", vote_id, r.outcome,
                          r.weight, r.n.sent)
        /\ g_governance' = r.n.g
        /\ IF r.outcome = "Submitted"
           THEN /\ pc' = [pc EXCEPT !["rpc"] = "postWait"]
                /\ loc' = [loc EXCEPT !["rpc"] = [vote_id |-> vote_id,
                                                 decision |-> decision,
                                                 returned |-> FALSE]]
                /\ lock' = "rpc"
           ELSE UNCHANGED << pc, loc, lock >>
  /\ UNCHANGED << mapWallet, ledger, synced, now >>
  /\ UNCHANGED cacheVars

\* ... while(!g_governance.isReady()){} and what follows it.
RpcCastFinish ==
  /\ pc["rpc"] = "postWait"
  /\ g_governance.ready
  /\ \E r \in {CastPost(g_governance, ledger, loc["rpc"].vote_id)} :
        /\ ledger' = r.db
        /\ last' = Report("rpc", "postoffchainproposals", loc["rpc"].vote_id,
                          r.outcome, r.weight, 0)
  /\ pc' = [pc EXCEPT !["rpc"] = "idle"]
  /\ loc' = [loc EXCEPT !["rpc"] = NoLoc]
  /\ lock' = "none"
  /\ UNCHANGED << mapWallet, synced, now, g_governance >>
  /\ UNCHANGED cacheVars

\* A vote that does not take cs_main and cs_wallet.
GuiCastBeginNoLock(sel, decision, unlockOk, confirmed, fault) ==
  /\ pc["gui"] = "idle"
  /\ \E vote_id \in {SelectedVoteId(g_governance.proposals, 1, sel)},
        r \in {GuiCastPre(Net, mapWallet, ledger, synced, sel, decision,
                          unlockOk, confirmed, fault)} :
        /\ last' = Report("gui", "vote", vote_id, r.outcome, r.weight, r.n.sent)
        /\ g_governance' = r.n.g
        /\ IF r.outcome = "Submitted"
           THEN /\ pc' = [pc EXCEPT !["gui"] = "voteWait"]
                /\ loc' = [loc EXCEPT !["gui"] = [vote_id |-> vote_id,
                                                 decision |-> decision,
                                                 returned |-> FALSE]]
                /\ lock' = "gui"
           ELSE UNCHANGED << pc, loc, lock >>
  /\ UNCHANGED << mapWallet, ledger, synced, now >>
  /\ UNCHANGED cacheVars

\* GUI vote(decision) on the selected row: from the click to the request.
GuiCastBegin(sel, decision, unlockOk, confirmed, fault) ==
  /\ pc["gui"] = "idle"
  /\ \E vote_id \in {SelectedVoteId(g_governance.proposals, 1, sel)},
        r \in {GuiCastPre(Net, mapWallet, ledger, synced, sel, decision,
                          unlockOk, confirmed, fault)} :
        /\ r.outcome \notin {"NoSelection", "NotSynced"} => lock = "none"
        /\ last' = Report("gui", "vote", vote_id, r.outcome, r.weight, r.n.sent)
        /\ g_governance' = r.n.g
        /\ IF r.outcome = "Submitted"
           THEN /\ pc' = [pc EXCEPT !["gui"] = "voteWait"]
                /\ loc' = [loc EXCEPT !["gui"] = [vote_id |-> vote_id,
                                                 decision |-> decision,
                                                 returned |-> FALSE]]
                /\ lock' = "gui"
           ELSE UNCHANGED << pc, loc, lock >>
  /\ UNCHANGED << mapWallet, ledger, synced, now >>
  /\ UNCHANGED cacheVars

\* ... the wait, the status, the weight, the entry, then the request that
\* refreshes the list.
GuiCastFinish ==
  /\ pc["gui"] = "voteWait"
  /\ g_governance.ready
  /\ \E r \in {CastPost(g_governance, ledger, loc["gui"].vote_id)} :
     \E n \in {IF r.outcome = "RequestFailed" THEN Net
               ELSE SendRequests(Net, GET_PROPOSALS, <<>>, "gui")} :
        /\ ledger' = r.db
        /\ last' = Report("gui", "vote", loc["gui"].vote_id, r.outcome,
                          r.weight, n.sent)
        /\ g_governance' = n.g
        /\ IF r.outcome = "RequestFailed"
           THEN /\ pc' = [pc EXCEPT !["gui"] = "idle"]
                /\ loc' = [loc EXCEPT !["gui"] = NoLoc]
                /\ lock' = "none"
           ELSE /\ pc' = [pc EXCEPT !["gui"] = "voteRefreshWait"]
                /\ loc' = [loc EXCEPT !["gui"] = NoLoc]
                /\ lock' = lock
  /\ UNCHANGED << mapWallet, synced, now >>
  /\ UNCHANGED cacheVars

\* ... the second wait, after which vote() returns.
GuiCastReturn ==
  /\ pc["gui"] = "voteRefreshWait"
  /\ g_governance.ready
  /\ pc' = [pc EXCEPT !["gui"] = "idle"]
  /\ lock' = "none"
  /\ last' = Report("gui", "vote", "", "Returned", NoWeight, 0)
  /\ UNCHANGED << mapWallet, ledger, synced, now, g_governance, loc >>
  /\ UNCHANGED cacheVars

\* ------------------------------------------------------- the proposal list

\* QString::contains on the one-letter row texts of ProposalLists.
RowContains(text, filter) == text = filter

\* The rows updateProposalList inserts from the proposal buffer.
RenderRows(proposals, filter) ==
  {proposals[i].name : i \in {j \in 1 .. Len(proposals) :
        filter = "" \/ RowContains(proposals[j].name, filter)}}

Cache == [rows |-> rows, filter |-> strCurrentFilter,
          fFilterUpdated |-> fFilterUpdated,
          nTimeFilterUpdated |-> nTimeFilterUpdated,
          nTimeListUpdated |-> nTimeListUpdated]

\* An updateProposalList that fetches without clearing fFilterUpdated.
UpdateProposalListKeepingFlag(c, n, time, fLockAcquired) ==
  IF ~fLockAcquired THEN [c |-> c, n |-> n, outcome |-> "NoLock"]
  ELSE LET listUpdated == IF c.nTimeListUpdated = NotYet THEN time
                          ELSE c.nTimeListUpdated
           nSecondsToWait == IF c.fFilterUpdated
                             THEN c.nTimeFilterUpdated - time + FILTER_COOLDOWN_SECONDS
                             ELSE listUpdated - time + UPDATE_SECONDS
       IN IF nSecondsToWait > 0
          THEN [c |-> [c EXCEPT !.nTimeListUpdated = listUpdated], n |-> n,
                outcome |-> "Waiting"]
          ELSE LET n2 == SendRequests(n, GET_PROPOSALS, <<>>, "gui")
               IN [c |-> [c EXCEPT !.nTimeListUpdated = time,
                                   !.rows = RenderRows(n2.g.proposals, c.filter)],
                   n |-> n2, outcome |-> "Fetched"]

\* An updateProposalList that waits for the general timer only.
UpdateProposalListGeneralTimerOnly(c, n, time, fLockAcquired) ==
  IF ~fLockAcquired THEN [c |-> c, n |-> n, outcome |-> "NoLock"]
  ELSE LET listUpdated == IF c.nTimeListUpdated = NotYet THEN time
                          ELSE c.nTimeListUpdated
       IN IF listUpdated - time + UPDATE_SECONDS > 0
          THEN [c |-> [c EXCEPT !.nTimeListUpdated = listUpdated], n |-> n,
                outcome |-> "Waiting"]
          ELSE LET n2 == SendRequests(n, GET_PROPOSALS, <<>>, "gui")
               IN [c |-> [c EXCEPT !.nTimeListUpdated = time,
                                   !.fFilterUpdated = FALSE,
                                   !.rows = RenderRows(n2.g.proposals, c.filter)],
                   n |-> n2, outcome |-> "Fetched"]

\* An updateProposalList that restarts the general timer whenever it waits.
UpdateProposalListRestartingTimer(c, n, time, fLockAcquired) ==
  IF ~fLockAcquired THEN [c |-> c, n |-> n, outcome |-> "NoLock"]
  ELSE LET listUpdated == IF c.nTimeListUpdated = NotYet THEN time
                          ELSE c.nTimeListUpdated
           nSecondsToWait == IF c.fFilterUpdated
                             THEN c.nTimeFilterUpdated - time + FILTER_COOLDOWN_SECONDS
                             ELSE listUpdated - time + UPDATE_SECONDS
       IN IF nSecondsToWait > 0
          THEN [c |-> [c EXCEPT !.nTimeListUpdated = time], n |-> n,
                outcome |-> "Waiting"]
          ELSE LET n2 == SendRequests(n, GET_PROPOSALS, <<>>, "gui")
               IN [c |-> [c EXCEPT !.nTimeListUpdated = time,
                                   !.fFilterUpdated = FALSE,
                                   !.rows = RenderRows(n2.g.proposals, c.filter)],
                   n |-> n2, outcome |-> "Fetched"]

\* OffChainGovernance::updateProposalList: the cache, the client and the
\* outcome after one call.
UpdateProposalList(c, n, time, fLockAcquired) ==
  IF ~fLockAcquired THEN [c |-> c, n |-> n, outcome |-> "NoLock"]
  ELSE LET listUpdated == IF c.nTimeListUpdated = NotYet THEN time
                          ELSE c.nTimeListUpdated
           nSecondsToWait == IF c.fFilterUpdated
                             THEN c.nTimeFilterUpdated - time + FILTER_COOLDOWN_SECONDS
                             ELSE listUpdated - time + UPDATE_SECONDS
       IN IF nSecondsToWait > 0
          THEN [c |-> [c EXCEPT !.nTimeListUpdated = listUpdated], n |-> n,
                outcome |-> "Waiting"]
          ELSE LET n2 == SendRequests(n, GET_PROPOSALS, <<>>, "gui")
               IN [c |-> [c EXCEPT !.nTimeListUpdated = time,
                                   !.fFilterUpdated = FALSE,
                                   !.rows = RenderRows(n2.g.proposals, c.filter)],
                   n |-> n2, outcome |-> "Fetched"]

SetCache(c) ==
  /\ rows' = c.rows
  /\ strCurrentFilter' = c.filter
  /\ fFilterUpdated' = c.fFilterUpdated
  /\ nTimeFilterUpdated' = c.nTimeFilterUpdated
  /\ nTimeListUpdated' = c.nTimeListUpdated

\* The slot updateProposalList, run by the GUI thread on a list-changed signal.
UpdateProposalListSlot(fLockAcquired) ==
  /\ pc["gui"] = "idle"
  /\ \E r \in {UpdateProposalList(Cache, Net, now, fLockAcquired)} :
        /\ SetCache(r.c)
        /\ g_governance' = r.n.g
        /\ last' = Report("gui", "updateProposalList", "", r.outcome, NoWeight,
                          r.n.sent)
  /\ UNCHANGED << mapWallet, ledger, synced, now, pc, loc, lock >>

\* on_filterLineEdit_textChanged
FilterTextChanged(strFilterIn) ==
  /\ pc["gui"] = "idle"
  /\ strCurrentFilter' = strFilterIn
  /\ nTimeFilterUpdated' = now
  /\ fFilterUpdated' = TRUE
  /\ last' = Report("gui", "filterTextChanged", "", "Waiting", NoWeight, 0)
  /\ UNCHANGED << mapWallet, ledger, synced, now, g_governance, pc, loc, lock,
                  rows, nTimeListUpdated >>

\* on_refreshListButton_clicked: the request ...
RefreshClicked ==
  /\ pc["gui"] = "idle"
  /\ LET n == SendRequests(Net, GET_PROPOSALS, <<>>, "gui")
     IN /\ g_governance' = n.g
        /\ last' = Report("gui", "refresh", "", "Submitted", NoWeight, n.sent)
  /\ pc' = [pc EXCEPT !["gui"] = "refreshWait"]
  /\ UNCHANGED << mapWallet, ledger, synced, now, loc, lock >>
  /\ UNCHANGED cacheVars

\* ... the wait, then updateProposalList().
RefreshFinish(fLockAcquired) ==
  /\ pc["gui"] = "refreshWait"
  /\ g_governance.ready
  /\ \E r \in {UpdateProposalList(Cache, Net, now, fLockAcquired)} :
        /\ SetCache(r.c)
        /\ g_governance' = r.n.g
        /\ last' = Report("gui", "refresh", "", r.outcome, NoWeight, r.n.sent)
  /\ pc' = [pc EXCEPT !["gui"] = "idle"]
  /\ UNCHANGED << mapWallet, ledger, synced, now, loc, lock >>

\* ------------------------------------------------------------ the other RPCs

\* RPC getoffchainproposals: the request ...
RpcGetBegin ==
  /\ pc["rpc"] = "idle"
  /\ LET n == SendRequests(Net, GET_PROPOSALS, <<>>, "rpc")
     IN /\ g_governance' = n.g
        /\ last' = Report("rpc", "getoffchainproposals", "", "Submitted",
                          NoWeight, n.sent)
  /\ pc' = [pc EXCEPT !["rpc"] = "getWait"]
  /\ UNCHANGED << mapWallet, ledger, synced, now, loc, lock >>
  /\ UNCHANGED cacheVars

\* ... the wait, the status, the buffered proposals.
RpcGetFinish ==
  /\ pc["rpc"] = "getWait"
  /\ g_governance.ready
  /\ pc' = [pc EXCEPT !["rpc"] = "idle"]
  /\ last' = Report("rpc", "getoffchainproposals", "",
                    IF g_governance.statusOK THEN "Proposals" ELSE "RequestFailed",
                    NoWeight, 0)
  /\ UNCHANGED << mapWallet, ledger, synced, now, g_governance, loc, lock >>
  /\ UNCHANGED cacheVars

\* An erase loop that stops before the last entry and counts it all the same.
EraseEntriesLeavingLast(db, failAt) ==
  IF failAt = 0
  THEN [db |-> IF db = <<>> THEN <<>> ELSE <<db[Len(db)]>>,
        erased |-> Len(db), err |-> "none"]
  ELSE [db |-> SubSeq(db, failAt, Len(db)), erased |-> failAt - 1,
        err |-> "EraseFailed"]

\* CWalletDB::EraseGovernanceEntry on the entries of the list in turn; failAt
\* is the position of the entry whose erase fails, 0 when none does.
EraseEntries(db, failAt) ==
  IF failAt = 0
  THEN [db |-> <<>>, erased |-> Len(db), err |-> "none"]
  ELSE [db |-> SubSeq(db, failAt, Len(db)), erased |-> failAt - 1,
        err |-> "EraseFailed"]

\* RPC erasegoventries
RpcErase(unlocked, failAt) ==
  /\ pc["rpc"] = "idle"
  /\ lock = "none"
  /\ failAt \in 0 .. Len(ledger)
  /\ IF ~unlocked
     THEN /\ ledger' = ledger
          /\ last' = Report("rpc", "erasegoventries", "", "WalletLocked",
                            NoWeight, 0)
     ELSE \E r \in {EraseEntries(ListGovernanceEntries(ledger), failAt)} :
             /\ ledger' = r.db
             /\ last' = Report("rpc", "erasegoventries", "",
                               IF r.err = "none" THEN "Erased" ELSE r.err,
                               IF r.err = "none" THEN r.erased ELSE NoWeight, 0)
  /\ UNCHANGED << mapWallet, synced, now, g_governance, pc, loc, lock >>
  /\ UNCHANGED cacheVars

\* ------------------------------------------------------------- environment

\* A second passes.
Tick ==
  /\ now < StartTime + MaxElapsed
  /\ now' = now + 1
  /\ UNCHANGED << mapWallet, ledger, synced, g_governance, pc, loc, lock, last >>
  /\ UNCHANGED cacheVars

\* The initial block download ends.
FinishSync ==
  /\ ~synced
  /\ synced' = TRUE
  /\ UNCHANGED << mapWallet, ledger, now, g_governance, pc, loc, lock, last >>
  /\ UNCHANGED cacheVars

\* ----------------------------------------------------------- specification

\* The wallet's answers to one RPC cast: it is locked, or it is unlocked and
\* the key store has at most one fault among the addresses of the batch.
RpcAnswers ==
  {[unlocked |-> FALSE, fault |-> NoFault]} \cup
  [unlocked : {TRUE},
   fault : KeyFaults(RpcVotingAddresses(mapWallet, 1, now, <<>>))]

\* The user's and the wallet's answers to one GUI cast, in the order they are
\* asked for: unlock cancelled, vote declined, or confirmed.
GuiAnswers ==
  {[unlockOk |-> FALSE, confirmed |-> FALSE, fault |-> NoFault],
   [unlockOk |-> TRUE, confirmed |-> FALSE, fault |-> NoFault]} \cup
  [unlockOk : {TRUE}, confirmed : {TRUE},
   fault : KeyFaults(GuiVotingAddresses(mapWallet, 1, <<>>))]

RpcCast == \E v \in VoteIds, d \in RpcDecisions, a \in RpcAnswers :
             RpcCastBegin(v, d, a.unlocked, a.fault)
GuiCast == \E sel \in rows \cup {NoRow}, d \in GuiDecisions, a \in GuiAnswers :
             GuiCastBegin(sel, d, a.unlockOk, a.confirmed, a.fault)
UpdateSlot == \E a \in BOOLEAN : UpdateProposalListSlot(a)
FilterChange == \E f \in Filters : FilterTextChanged(f)
RefreshWait == \E a \in BOOLEAN : RefreshFinish(a)
EraseAll == \E u \in BOOLEAN, f \in 0 .. Len(ledger) : RpcErase(u, f)

\* The state in which the list page shows a fetched list: the proposals were
\* fetched, UPDATE_SECONDS passed after the page's first updateProposalList,
\* the next one rendered the buffer and its own request was answered. The
\* specification SpecList reaches it from InitConstructed (ListedReachable).
ListedProposals == << [name |-> "A", vote_id |-> "p1"],
                      [name |-> "B", vote_id |-> "p2"] >>

Listed ==
  /\ ledger = <<>>
  /\ now = StartTime + UPDATE_SECONDS
  /\ g_governance = [ready |-> TRUE, statusOK |-> TRUE,
                     proposals |-> ListedProposals, votes |-> <<>>,
                     request |-> NoRequest]
  /\ pc = [t \in Threads |-> "idle"]
  /\ loc = [t \in Threads |-> NoLoc]
  /\ lock = "none"
  /\ rows = {"A", "B"}
  /\ strCurrentFilter = ""
  /\ fFilterUpdated = FALSE
  /\ nTimeFilterUpdated = StartTime
  /\ nTimeListUpdated = StartTime + UPDATE_SECONDS
  /\ last = Report("gui", "updateProposalList", "", "Fetched", NoWeight, 1)

Init ==
  /\ mapWallet \in Wallets
  /\ synced \in BOOLEAN
  /\ Listed

\* The voting protocol at one instant of the clock: both cast paths, the
\* other RPCs, the list page's requests and the coordination service. The
\* filter edit and the clock are steps of SpecList.
Next ==
  \/ RpcCast
  \/ RpcCastFinish
  \/ GuiCast
  \/ GuiCastFinish
  \/ GuiCastReturn
  \/ UpdateSlot
  \/ RefreshClicked
  \/ RefreshWait
  \/ RpcGetBegin
  \/ RpcGetFinish
  \/ EraseAll
  \/ ServiceResponds
  \/ FinishSync

Spec == Init /\ [][Next]_vars

\* The list page from construction, with the clock running.
InitList ==
  /\ InitConstructed
  /\ mapWallet = {}
  /\ synced

NextList ==
  \/ UpdateSlot
  \/ FilterChange
  \/ RefreshClicked
  \/ RefreshWait
  \/ RpcGetBegin
  \/ RpcGetFinish
  \/ FetchResponds
  \/ Tick

SpecList == InitList /\ [][NextList]_vars

\* SpecList reaches the state Spec starts from.
ListedReachable == Listed

\* The ledger's contract on its own: two callers that check and write with
\* nothing serialising them.
StoreCheck(t, voteID) ==
  /\ pc[t] = "idle"
  /\ IF Exists(ledger, voteID)
     THEN /\ last' = Report(t, "Exists", voteID, "present", NoWeight, 0)
          /\ UNCHANGED << pc, loc >>
     ELSE /\ last' = Report(t, "Exists", voteID, "absent", NoWeight, 0)
          /\ pc' = [pc EXCEPT ![t] = "checked"]
          /\ loc' = [loc EXCEPT ![t] = [vote_id |-> voteID, decision |-> "",
                                      returned |-> FALSE]]
  /\ UNCHANGED << mapWallet, ledger, synced, now, g_governance, lock >>
  /\ UNCHANGED cacheVars

StoreWrite(t, voteWeight) ==
  /\ pc[t] = "checked"
  /\ \E r \in {WriteGovernanceEntry(ledger, [voteID |-> loc[t].vote_id,
                                             voteWeight |-> voteWeight])} :
        /\ ledger' = r.db
        /\ last' = Report(t, "WriteGovernanceEntry", loc[t].vote_id, r.err,
                          voteWeight, 0)
  /\ pc' = [pc EXCEPT ![t] = "idle"]
  /\ loc' = [loc EXCEPT ![t] = NoLoc]
  /\ UNCHANGED << mapWallet, synced, now, g_governance, lock >>
  /\ UNCHANGED cacheVars

StoreEraseAll(t) ==
  /\ pc[t] = "idle"
  /\ ledger' = EraseEntries(ListGovernanceEntries(ledger), 0).db
  /\ last' = Report(t, "EraseAll", "", "Erased", Len(ledger), 0)
  /\ UNCHANGED << mapWallet, synced, now, g_governance, pc, loc, lock >>
  /\ UNCHANGED cacheVars

LedgerCheck == \E t \in Threads, v \in VoteIds : StoreCheck(t, v)
LedgerWrite == \E t \in Threads, w \in 1 .. 2 * MaxWeight : StoreWrite(t, w)
LedgerEraseAll == \E t \in Threads : StoreEraseAll(t)

NextLedger ==
  \/ LedgerCheck
  \/ LedgerWrite
  \/ LedgerEraseAll

SpecLedger == InitList /\ [][NextLedger]_vars

\* The addresses the cast of thread t collects.
VotingAddressesOf(t) ==
  IF t = "gui" THEN GuiVotingAddresses(mapWallet, 1, <<>>)
  ELSE RpcVotingAddresses(mapWallet, 1, now, <<>>)

\* The collector on its own: every wallet over the pool, the clock running,
\* each path's loop over mapWallet applied at the current time.
AllWallets == SUBSET (1 .. Len(TxPool))

Collect(t) ==
  /\ last' = [thread |-> t, op |-> "collect", time |-> now,
              votingAddresses |-> VotingAddressesOf(t)]
  /\ UNCHANGED << mapWallet, ledger, synced, now, g_governance, pc, loc, lock >>
  /\ UNCHANGED cacheVars

CollectAny == \E t \in Threads : Collect(t)

InitCollect ==
  /\ mapWallet \in AllWallets
  /\ synced = TRUE
  /\ Constructed

NextCollect ==
  \/ CollectAny
  \/ Tick

SpecCollect == InitCollect /\ [][NextCollect]_vars

\* The aggregator on its own: the loop over a vote buffer of up to MaxVotes
\* records, weights from "0" on, for each vote identifier.
AggRecords == [vote_id : VoteIds, address : {EncodeDestination("sA")},
               weight : {WeightString(n) : n \in 0 .. MaxWeight + 1}]
AggVoteLists == UNION {[1 .. k -> AggRecords] : k \in 0 .. MaxVotes}

\* A cast of vote_id waiting with the answered buffer votes in the client.
InitAggregate ==
  /\ mapWallet = {}
  /\ synced = TRUE
  /\ ledger = <<>>
  /\ now = StartTime
  /\ \E votes \in AggVoteLists :
       g_governance = [ready |-> TRUE, statusOK |-> TRUE, proposals |-> <<>>,
                       votes |-> votes, request |-> NoRequest]
  /\ pc = [t \in Threads |-> IF t = "rpc" THEN "postWait" ELSE "idle"]
  /\ \E v \in VoteIds :
       loc = [t \in Threads |-> IF t = "rpc"
                                THEN [vote_id |-> v, decision |-> "1",
                                      returned |-> TRUE]
                                ELSE NoLoc]
  /\ lock = "rpc"
  /\ rows = {}
  /\ strCurrentFilter = ""
  /\ fFilterUpdated = FALSE
  /\ nTimeFilterUpdated = StartTime
  /\ nTimeListUpdated = NotYet
  /\ last = Report("rpc", "postoffchainproposals", "", "Submitted", NoWeight, 1)

\* The loop over the buffer, as the waiting cast runs it.
Aggregate ==
  /\ pc["rpc"] = "postWait"
  /\ g_governance.ready /\ g_governance.statusOK
  /\ last' = [thread |-> "rpc", op |-> "VoteWeight",
              votes |-> g_governance.votes, vote_id |-> loc["rpc"].vote_id,
              voteWeight |-> VoteWeight(g_governance.votes, 1,
                                        loc["rpc"].vote_id, 0)]
  /\ pc' = [pc EXCEPT !["rpc"] = "summed"]
  /\ UNCHANGED << mapWallet, ledger, synced, now, g_governance, loc, lock >>
  /\ UNCHANGED cacheVars

NextAggregate == Aggregate

SpecAggregate == InitAggregate /\ [][NextAggregate]_vars

\* The submission on its own: both cast paths from the call to the request,
\* for every wallet over the pool. postoffchainproposals takes its two
\* parameters as the caller's strings; the vote buttons pass "1" and "0".
RpcVoteIdStrings == VoteIds \cup {"abc"}
RpcDecisionStrings == {"0", "1", "yes"}

InitSubmit ==
  /\ mapWallet \in AllWallets
  /\ synced = TRUE
  /\ Listed

RpcSubmit == \E v \in RpcVoteIdStrings, d \in RpcDecisionStrings, a \in RpcAnswers :
               RpcCastBegin(v, d, a.unlocked, a.fault)

NextSubmit ==
  \/ RpcSubmit
  \/ GuiCast

SpecSubmit == InitSubmit /\ [][NextSubmit]_vars

\* The waits on their own: every handler that sends a request and spins on
\* isReady(), with a coordination service that may answer or stay silent. A
\* spinning thread goes on running, so the step after its wait is taken once
\* the client stays ready; nothing obliges the service to answer.
InitWait ==
  /\ mapWallet \in Wallets
  /\ synced = TRUE
  /\ Listed

NextWait ==
  \/ RpcCast
  \/ RpcCastFinish
  \/ GuiCast
  \/ GuiCastFinish
  \/ GuiCastReturn
  \/ RefreshClicked
  \/ RefreshWait
  \/ RpcGetBegin
  \/ RpcGetFinish
  \/ ServiceResponds

FairWait ==
  /\ WF_vars(RpcCastFinish)
  /\ WF_vars(GuiCastFinish)
  /\ WF_vars(GuiCastReturn)
  /\ WF_vars(RefreshWait)
  /\ WF_vars(RpcGetFinish)

SpecWait == InitWait /\ [][NextWait]_vars /\ FairWait

\* A restart that comes up with an empty governance table.
RestartLosingLedger ==
  /\ ledger' = <<>>
  /\ mapWallet' = mapWallet
  /\ g_governance' = [ready |-> TRUE, statusOK |-> FALSE,
                      proposals |-> <<>>, votes |-> <<>>, request |-> NoRequest]
  /\ pc' = [t \in Threads |-> "idle"]
  /\ loc' = [t \in Threads |-> NoLoc]
  /\ lock' = "none"
  /\ rows' = {}
  /\ strCurrentFilter' = ""
  /\ fFilterUpdated' = FALSE
  /\ nTimeFilterUpdated' = now
  /\ nTimeListUpdated' = NotYet
  /\ last' = Report("none", "start", "", "none", NoWeight, 0)
  /\ UNCHANGED << synced, now >>

\* The process stops and starts again: the wallet database keeps the
\* governance entries and the transactions, everything held in memory is as
\* constructed, and the static nTimeListUpdated is uninitialised again.
Restart ==
  /\ ledger' = ledger
  /\ mapWallet' = mapWallet
  /\ g_governance' = [ready |-> TRUE, statusOK |-> FALSE,
                      proposals |-> <<>>, votes |-> <<>>, request |-> NoRequest]
  /\ pc' = [t \in Threads |-> "idle"]
  /\ loc' = [t \in Threads |-> NoLoc]
  /\ lock' = "none"
  /\ rows' = {}
  /\ strCurrentFilter' = ""
  /\ fFilterUpdated' = FALSE
  /\ nTimeFilterUpdated' = now
  /\ nTimeListUpdated' = NotYet
  /\ last' = Report("none", "start", "", "none", NoWeight, 0)
  /\ UNCHANGED << synced, now >>

\* The casts across restarts of the process, the list page filling again
\* after each start.
InitRestart ==
  /\ mapWallet = {1}
  /\ synced = TRUE
  /\ Listed

NextRestart ==
  \/ RpcCast
  \/ RpcCastFinish
  \/ GuiCast
  \/ GuiCastFinish
  \/ GuiCastReturn
  \/ UpdateSlot
  \/ RefreshClicked
  \/ RefreshWait
  \/ ServiceResponds
  \/ Tick
  \/ Restart

SpecRestart == InitRestart /\ [][NextRestart]_vars

\* ------------------------------------------------------------------ claims

\* A step of the environment: the service answers, the sync ends, the clock
\* advances. Every other step is a step of a handler.
EnvStep ==
  \/ synced' # synced
  \/ now' # now
  \/ g_governance.request # NoRequest /\ g_governance'.request = NoRequest
HandlerStep == ~EnvStep

CastOps == {"vote", "postoffchainproposals"}
IsCast(r) == r.op \in CastOps
\* Outcomes of a cast that stops before it looks at the ledger.
GateOutcomes == {"NoSelection", "NotSynced", "UnlockCancelled", "WalletLocked"}
SignErrors == {"AddressResolutionError", "KeyUnavailableError", "SigningError"}

\* The step is a cast call: its thread was idle and reports a cast.
CastBeginStep == HandlerStep /\ IsCast(last') /\ pc[last'.thread] = "idle"
\* The step ends a cast's wait for its CAST_VOTE.
CastFinishStep ==
  HandlerStep /\ IsCast(last') /\ pc[last'.thread] \in {"postWait", "voteWait"}

EntryOf(db, voteID) == db[FindEntry(db, 1, voteID)]
Range(seq) == {seq[i] : i \in 1 .. Len(seq)}

\* C1 (as amended): a cast on a vote identifier that has a ledger entry issues
\* no request and changes neither ledger nor client; unless it stops at a gate
\* that precedes the ledger check it reports AlreadyVoted. A cast that ended in
\* success with a non-zero weight leaves such an entry.
C1_RecordedVoteRejected ==
  [][ /\ (CastBeginStep /\ Exists(ledger, last'.vote_id))
         => /\ last'.outcome \in GateOutcomes \cup {"AlreadyVoted"}
            /\ last'.sent = 0
            /\ UNCHANGED << ledger, g_governance, pc, lock >>
      /\ (CastFinishStep /\ last'.outcome = "Success" /\ last'.weight > 0)
         => Exists(ledger', last'.vote_id) ]_vars

C1_Witness ==
  /\ last.op = "vote"
  /\ last.outcome = "AlreadyVoted"
  /\ last.vote_id = "p2"

\* C1 (as stated): the cast that follows a completed cast on the same vote
\* identifier, whatever that one's outcome, reports AlreadyVoted and issues no
\* request.
C1_AnySecondCastRejected ==
  [][ (/\ CastBeginStep
       /\ IsCast(last)
       /\ last.outcome \in {"RequestFailed", "Success"}
       /\ last'.vote_id = last.vote_id
       /\ last'.outcome \notin GateOutcomes)
      => (last'.outcome = "AlreadyVoted" /\ last'.sent = 0) ]_vars

\* C2: the ledger never holds two entries of one vote identifier.
C2_OneEntryPerVoteId ==
  \A i, j \in 1 .. Len(ledger) : ledger[i].voteID = ledger[j].voteID => i = j

C2_Witness ==
  /\ Len(ledger) = 2
  /\ last.op = "postoffchainproposals"
  /\ last.outcome = "AlreadyVoted"

\* C3: a write for a vote identifier that has an entry is rejected with
\* DuplicateVoteError and leaves the ledger as it was, also when the writer's
\* own check found no entry before.
C3_WriteRechecks ==
  [][ (/\ last'.op = "WriteGovernanceEntry"
       /\ pc[last'.thread] = "checked"
       /\ pc'[last'.thread] = "idle"
       /\ Exists(ledger, loc[last'.thread].vote_id))
      => (last'.outcome = "DuplicateVoteError" /\ ledger' = ledger) ]_vars

C3_Witness ==
  /\ last.op = "WriteGovernanceEntry"
  /\ last.outcome = "DuplicateVoteError"
  /\ Exists(ledger, last.vote_id)

C5_EntriesKept ==
  [][ ~(HandlerStep /\ last'.op = "erasegoventries")
      => /\ Len(ledger') >= Len(ledger)
         /\ SubSeq(ledger', 1, Len(ledger)) = ledger ]_vars

C5_Witness ==
  /\ Len(ledger) = 2
  /\ last.op = "getoffchainproposals"
  /\ last.outcome = "Proposals"

\* C6: a cast reported as AlreadyVoted names the weight stored for its vote
\* identifier, issued no request and changed nothing; with an entry stored the
\* answer to the confirmation and the key store's faults do not matter.
C6_AlreadyVotedWeight ==
  [][ (HandlerStep /\ IsCast(last') /\ last'.outcome = "AlreadyVoted")
      => /\ Exists(ledger, last'.vote_id)
         /\ last'.weight = EntryOf(ledger, last'.vote_id).voteWeight
         /\ last'.sent = 0
         /\ UNCHANGED << ledger, g_governance, pc, loc, lock >>
         /\ \A d \in RpcDecisions, a \in GuiAnswers, sel \in rows :
              (a.unlockOk /\ synced
               /\ SelectedVoteId(g_governance.proposals, 1, sel) = last'.vote_id)
              => GuiCastPre(Net, mapWallet, ledger, synced, sel, d, a.unlockOk,
                            a.confirmed, a.fault)
                 = Ended(Net, "AlreadyVoted", last'.weight)
         /\ \A d \in RpcDecisions, a \in RpcAnswers :
              a.unlocked
              => RpcCastPre(Net, mapWallet, ledger, now, last'.vote_id, d,
                            a.unlocked, a.fault)
                 = Ended(Net, "AlreadyVoted", last'.weight) ]_vars

C6_Witness ==
  /\ last.op = "vote"
  /\ last.outcome = "AlreadyVoted"
  /\ Len(ledger) = 2
  /\ ledger[1].voteWeight # ledger[2].voteWeight
  /\ last.weight = ledger[2].voteWeight

\* The ballots a payload text holds when it is read as a JSON array of ballot
\* objects: "[", objects separated by ",", "]".
Malformed == [ok |-> FALSE, ballots |-> <<>>]

RECURSIVE ReadBallots(_, _, _)
ReadBallots(text, at, acc) ==
  IF at + 8 > Len(text) THEN Malformed
  ELSE IF \/ text[at] # "{\"voteid\":\""
          \/ text[at + 2] # "\",\"address\":\""
          \/ text[at + 4] # "\",\"signature\":\""
          \/ text[at + 6] # "\",\"ballot\":\""
          \/ text[at + 8] # "\"}"
  THEN Malformed
  ELSE LET read == Append(acc, [voteid |-> text[at + 1],
                                address |-> text[at + 3],
                                signature |-> text[at + 5],
                                ballot |-> text[at + 7]])
       IN IF at + 8 = Len(text) THEN [ok |-> TRUE, ballots |-> read]
          ELSE IF text[at + 9] # "," THEN Malformed
          ELSE ReadBallots(text, at + 10, read)

ParsePayload(text) ==
  IF Len(text) < 2 \/ text[1] # "[" \/ text[Len(text)] # "]" THEN Malformed
  ELSE IF Len(text) = 2 THEN [ok |-> TRUE, ballots |-> <<>>]
  ELSE ReadBallots(SubSeq(text, 2, Len(text) - 1), 1, <<>>)

\* C7 (as stated): while the node is not synced no CAST_VOTE is in flight and
\* no entry has been written.
C7_NotSyncedGate ==
  ~synced => (g_governance.request.kind # CAST_VOTE /\ ledger = <<>>)

\* C8 (as stated): no CAST_VOTE request carries an empty ballot array.
C8_NoEmptyBallotArray ==
  g_governance.request.kind = CAST_VOTE
  => ParsePayload(g_governance.request.payload).ballots # <<>>

\* C9: a cast that ends with a signing fault issued no request and changed
\* nothing; a CAST_VOTE in flight carries one ballot for every address of the
\* batch, in order.
C9_NoPartialBallots ==
  [][ /\ (HandlerStep /\ IsCast(last') /\ last'.outcome \in SignErrors)
         => /\ last'.sent = 0
            /\ UNCHANGED << ledger, g_governance, pc, loc, lock >>
      /\ (g_governance'.request.kind = CAST_VOTE)
         => LET req == g_governance'.request
                addrs == VotingAddressesOf(req.from)
                sent == ParsePayload(req.payload)
            IN /\ sent.ok
               /\ Len(sent.ballots) = Len(addrs)
               /\ \A i \in 1 .. Len(addrs) :
                    sent.ballots[i].address = EncodeDestination(addrs[i]) ]_vars

C9_Witness ==
  /\ IsCast(last)
  /\ last.outcome \in SignErrors
  /\ Len(VotingAddressesOf(last.thread)) = 2

\* C10: a cast whose wait ends with the client's status false reports
\* RequestFailed, names no weight whatever the vote buffer holds, and leaves
\* the ledger as it was.
C10_FailedRequest ==
  [][ (CastFinishStep /\ ~g_governance.statusOK)
      => /\ last'.outcome = "RequestFailed"
         /\ last'.weight = NoWeight
         /\ ledger' = ledger ]_vars

C10_Witness ==
  /\ IsCast(last)
  /\ last.outcome = "RequestFailed"
  /\ VoteWeight(g_governance.votes, 1, last.vote_id, 0) > 0

\* C14: no script a cast path collects is of the script-hash family, whatever
\* the wallet holds, so the ballots signed for the collected scripts name no
\* script-hash address.
C14_NoScriptHash ==
  last.op = "collect"
  => /\ \A i \in 1 .. Len(last.votingAddresses) :
          ~IsPayToScriptHashAny(last.votingAddresses[i])
     /\ LET signed == SignBallots(last.votingAddresses, 1, "p1", "1", NoFault,
                                  <<ArrayOpen>>)
            sent == ParsePayload(signed.postMessage)
        IN /\ sent.ok
           /\ \A i \in 1 .. Len(sent.ballots), s \in Scripts :
                IsPayToScriptHashAny(s)
                => sent.ballots[i].address # EncodeDestination(s)

C14_Witness ==
  /\ last.op = "collect"
  /\ \E tx \in mapWallet : \E k \in 1 .. Len(TxPool[tx].vout) :
        IsPayToScriptHashAny(TxPool[tx].vout[k]) /\ IsMine(TxPool[tx].vout[k])
  /\ Len(last.votingAddresses) = 2

\* C15 (as stated): every script collected, on either path, is an output of
\* a stake transaction of the wallet whose time is not before the collection
\* time minus vote_timeframe.
C15_InsideWindow ==
  last.op = "collect"
  => \A i \in 1 .. Len(last.votingAddresses) :
       \E tx \in mapWallet :
         /\ TxPool[tx].coinStake
         /\ TxPool[tx].time >= last.time - vote_timeframe
         /\ SeqContains(TxPool[tx].vout, last.votingAddresses[i])

\* C16: the collected list holds scripts of the wallet only, each at most
\* once, however many outputs and transactions pay to a script.
C16_OwnedDistinct ==
  last.op = "collect"
  => /\ \A i \in 1 .. Len(last.votingAddresses) : IsMine(last.votingAddresses[i])
     /\ \A i, j \in 1 .. Len(last.votingAddresses) :
          last.votingAddresses[i] = last.votingAddresses[j] => i = j

C16_Witness ==
  /\ last.op = "collect"
  /\ {1, 2} \subseteq mapWallet
  /\ last.votingAddresses = <<"sA", "sB">>

\* The sum of f over the finite set S.
RECURSIVE SumOver(_, _)
SumOver(S, f) ==
  IF S = {} THEN 0
  ELSE LET x == CHOOSE y \in S : TRUE IN f[x] + SumOver(S \ {x}, f)

\* The records of votes whose vote identifier is v, by position.
Matching(votes, v) == {i \in 1 .. Len(votes) : votes[i].vote_id = v}
\* The number a weight string denotes.
WeightValue(str) == CHOOSE n \in 0 .. MaxWeight + 1 : WeightString(n) = str

\* C12: the aggregated weight is the sum of the weights of exactly the
\* records of the buffer whose vote identifier is the cast's; it is zero when
\* none matches, and the other records change nothing.
C12_SumOfMatching ==
  last.op = "VoteWeight"
  => LET M == Matching(last.votes, last.vote_id)
     IN /\ last.voteWeight
             = SumOver(M, [i \in M |-> WeightValue(last.votes[i].weight)])
        /\ M = {} => last.voteWeight = 0
        /\ last.voteWeight
             = VoteWeight(SelectSeq(last.votes,
                                    LAMBDA r : r.vote_id = last.vote_id),
                          1, last.vote_id, 0)

C12_Witness ==
  /\ last.op = "VoteWeight"
  /\ Len(last.votes) = 3
  /\ Cardinality(Matching(last.votes, last.vote_id)) = 2
  /\ last.votes[2].vote_id # last.vote_id
  /\ last.votes[2].weight # "0"
  /\ last.voteWeight = 3

\* What the cast of thread t that waits for vote_id shows its caller when
\* it finds the client as g.
Shown(t, g, vote_id) ==
  IF t = "gui" THEN GuiMessage(g, vote_id) ELSE RpcReturn(g, vote_id)

CastWaits(t) == pc[t] \in {"postWait", "voteWait"} /\ g_governance.ready

\* C11: a cast whose exchange succeeded without a matching record shows its
\* caller something that differs from what it shows for a failed request and
\* from what it shows for any answer with a positive weight, on both paths.
C11_ZeroWeightDistinct ==
  \A t \in Threads :
    (/\ CastWaits(t)
     /\ g_governance.statusOK
     /\ Matching(g_governance.votes, loc[t].vote_id) = {})
    => LET v == loc[t].vote_id
           zero == Shown(t, g_governance, v)
       IN /\ zero # Shown(t, [g_governance EXCEPT !.statusOK = FALSE], v)
          /\ \A votes \in VoteLists :
               VoteWeight(votes, 1, v, 0) > 0
               => zero # Shown(t, [g_governance EXCEPT !.votes = votes], v)

C11_Witness ==
  /\ IsCast(last)
  /\ last.thread = "gui"
  /\ last.outcome = "Success"
  /\ last.weight = 0
  /\ g_governance.votes # <<>>

\* The records of the pairs an RPC cast returns.
ReturnedVotes(ret) == [i \in 1 .. Len(ret.obj) |-> ret.obj[i].value.json]

\* C13 (as amended): a cast of v that ends its wait with status true and
\* matching records summing to W > 0, v not recorded before, appends the entry
\* (v, W) and keeps the other entries; the GUI's message says W, the RPC
\* returns the matching records, whose weights sum to W.
C13_SuccessRecorded ==
  [][ (/\ CastFinishStep
       /\ g_governance.statusOK
       /\ ~Exists(ledger, last'.vote_id)
       /\ VoteWeight(g_governance.votes, 1, last'.vote_id, 0) > 0)
      => LET v == last'.vote_id
             W == VoteWeight(g_governance.votes, 1, v, 0)
             M == Matching(g_governance.votes, v)
         IN /\ ledger' = Append(ledger, [voteID |-> v, voteWeight |-> W])
            /\ Cardinality({i \in 1 .. Len(ledger') : ledger'[i].voteID = v}) = 1
            /\ last'.thread = "gui"
               => GuiMessage(g_governance, v).text
                    = "Successfully casted vote. Vote weight added: "
                      \o WeightString(W)
            /\ last'.thread = "rpc"
               => LET ret == RpcReturn(g_governance, v)
                  IN /\ ret.type = "object"
                     /\ ReturnedVotes(ret)
                          = SelectSeq(g_governance.votes,
                                      LAMBDA r : r.vote_id = v)
                     /\ SumOver(M, [i \in M |->
                              WeightValue(g_governance.votes[i].weight)]) = W ]_vars

C13_Witness ==
  /\ last.op = "postoffchainproposals"
  /\ last.outcome = "Success"
  /\ last.weight = 2
  /\ Len(ledger) = 2
  /\ ledger[2] = [voteID |-> last.vote_id, voteWeight |-> 2]

\* C13 (as stated): such a cast returns W to its caller on either path: the
\* GUI's message says W, and the RPC's return value holds a record of weight W.
C13_ReturnsWeight ==
  [][ (/\ CastFinishStep
       /\ g_governance.statusOK
       /\ ~Exists(ledger, last'.vote_id)
       /\ VoteWeight(g_governance.votes, 1, last'.vote_id, 0) > 0)
      => LET v == last'.vote_id
             W == VoteWeight(g_governance.votes, 1, v, 0)
         IN IF last'.thread = "gui"
            THEN GuiMessage(g_governance, v).text
                   = "Successfully casted vote. Vote weight added: "
                     \o WeightString(W)
            ELSE LET ret == RpcReturn(g_governance, v)
                 IN \E i \in 1 .. Len(ret.obj) :
                      ret.obj[i].value.json.weight = WeightString(W) ]_vars


\* The request a cast has in flight, read as ballots, with the addresses and
\* the parameters of the cast that sent it.
CastInFlight == g_governance.request.kind = CAST_VOTE
SentBallots == ParsePayload(g_governance.request.payload)
SentBy == g_governance.request.from

\* C17: the payload of a CAST_VOTE in flight reads as one ballot object for
\* every address the cast collected, in the order collected, none missing and
\* none repeated, and every ballot carries the cast's vote identifier and
\* decision.
C17_OneBallotPerAddress ==
  CastInFlight
  => LET addrs == VotingAddressesOf(SentBy)
     IN /\ SentBallots.ok
        /\ Len(SentBallots.ballots) = Len(addrs)
        /\ \A i \in 1 .. Len(addrs) :
             /\ SentBallots.ballots[i].address = EncodeDestination(addrs[i])
             /\ SentBallots.ballots[i].voteid = loc[SentBy].vote_id
             /\ SentBallots.ballots[i].ballot = loc[SentBy].decision
        /\ \A i, j \in 1 .. Len(SentBallots.ballots) :
             i # j => SentBallots.ballots[i].address # SentBallots.ballots[j].address

C17_Witness ==
  /\ CastInFlight
  /\ Len(VotingAddressesOf(SentBy)) = 2
  /\ Len(SentBallots.ballots) = 2
  /\ loc[SentBy].decision = "0"

\* The message under a ballot's signature: what was hashed after the magic.
SignedMessage(ballot) == ballot.signature.b64.signed.hash[2]

\* C18: the message signed for every ballot of a CAST_VOTE in flight is the
\* cast's vote identifier, an underscore and the cast's decision, nothing
\* else ("abc_1" for vote abc and decision 1), the same for every address of
\* the batch, each signature made with the key of the ballot's address.
C18_SignedMessage ==
  CastInFlight
  => \A i \in 1 .. Len(SentBallots.ballots) :
       LET ballot == SentBallots.ballots[i]
       IN /\ SignedMessage(ballot) = loc[SentBy].vote_id \o "_" \o loc[SentBy].decision
          /\ (loc[SentBy].vote_id = "abc" /\ loc[SentBy].decision = "1")
             => SignedMessage(ballot) = "abc_1"
          /\ SignedMessage(ballot) = SignedMessage(SentBallots.ballots[1])
          /\ ballot.signature.b64.signed.hash[1] = strMessageMagic
          /\ EncodeDestination(ballot.signature.b64.key) = ballot.address

C18_Witness ==
  /\ CastInFlight
  /\ Len(SentBallots.ballots) = 2
  /\ loc[SentBy].vote_id = "abc"
  /\ SignedMessage(SentBallots.ballots[2]) = "abc_1"

\* C19 (as stated): every ballot of a CAST_VOTE in flight carries the
\* decision "0" or "1"; a cast with another decision string sends nothing.
C19_DecisionTokens ==
  CastInFlight
  => \A i \in 1 .. Len(SentBallots.ballots) :
       SentBallots.ballots[i].ballot \in {"0", "1"}


\* The step runs updateProposalList: the slot, or the call that ends the
\* refresh button's handler.
UpdateProposalListStep ==
  /\ HandlerStep
  /\ \/ last'.op = "updateProposalList" /\ pc["gui"] = "idle"
     \/ last'.op = "refresh" /\ pc["gui"] = "refreshWait"

\* C20: once the filter text has changed, no run of updateProposalList sends
\* GET_PROPOSALS before FILTER_COOLDOWN_SECONDS have passed since the most
\* recent change, however many runs and changes come in between; every change
\* of the filter text sets the deadline anew from the time of the change.
C20_FilterCooldown ==
  [][ /\ (UpdateProposalListStep /\ strCurrentFilter # "" /\ last'.sent > 0)
         => /\ now >= nTimeFilterUpdated + FILTER_COOLDOWN_SECONDS
            /\ g_governance'.request.kind = GET_PROPOSALS
      /\ (UpdateProposalListStep /\ fFilterUpdated
            /\ now < nTimeFilterUpdated + FILTER_COOLDOWN_SECONDS)
         => /\ last'.sent = 0
            /\ g_governance' = g_governance
            /\ fFilterUpdated'
      /\ (HandlerStep /\ last'.op = "filterTextChanged" /\ pc["gui"] = "idle")
         => /\ nTimeFilterUpdated' = now
            /\ fFilterUpdated' ]_vars

\* The general timer has run out, the filter text was changed again a moment
\* ago, and the run of updateProposalList that followed sent nothing.
C20_Witness ==
  /\ last.op = "updateProposalList"
  /\ last.outcome = "Waiting"
  /\ fFilterUpdated
  /\ nTimeFilterUpdated = now
  /\ now > StartTime + FILTER_COOLDOWN_SECONDS
  /\ nTimeListUpdated # NotYet
  /\ nTimeListUpdated + UPDATE_SECONDS <= now


\* C21 (as stated): a run of updateProposalList sends GET_PROPOSALS only when
\* both deadlines have passed: the last list update plus UPDATE_SECONDS and
\* the last filter change plus FILTER_COOLDOWN_SECONDS.
C21_LaterOfTwoDeadlines ==
  [][ (UpdateProposalListStep /\ last'.sent > 0)
      => LET listUpdated == IF nTimeListUpdated = NotYet THEN now
                            ELSE nTimeListUpdated
         IN /\ now >= listUpdated + UPDATE_SECONDS
            /\ now >= nTimeFilterUpdated + FILTER_COOLDOWN_SECONDS ]_vars


\* C22 (as stated): a handler reads the buffered proposals or votes only from
\* a client that is ready, with no request in flight, and whose status is
\* true: updateProposalList (in the slot and at the end of the refresh
\* handler) where it renders, the two cast paths where they sum the votes,
\* getoffchainproposals where it returns the proposals.
C22_ReadAfterReadyAndStatus ==
  [][ /\ (UpdateProposalListStep /\ last'.outcome = "Fetched")
         => /\ g_governance'.ready
            /\ g_governance'.statusOK
            /\ g_governance'.request = NoRequest
      /\ (CastFinishStep /\ last'.outcome # "RequestFailed")
         => g_governance.ready /\ g_governance.statusOK
      /\ (HandlerStep /\ last'.op = "getoffchainproposals"
            /\ last'.outcome = "Proposals")
         => g_governance.ready /\ g_governance.statusOK ]_vars


\* C23 (as stated): a handler sends a request on the shared client only when
\* no request is in flight and no other thread is between its own request
\* and its reading of the result.
C23_OneExchangeInFlight ==
  [][ (HandlerStep /\ last'.sent > 0)
      => /\ g_governance.request = NoRequest
         /\ \A t \in Threads \ {last'.thread} : pc[t] = "idle" ]_vars


\* The positions of a thread between its cast's existence check and the end
\* of the cast.
InCast == {"postWait", "voteWait", "voteRefreshWait"}
\* Outcomes of a vote that returns before it asks for cs_main and cs_wallet.
BeforeLock == {"NoSelection", "NotSynced"}

\* C24: the existence check, the signing, the submission and the write of one
\* cast never interleave with those of another: a cast runs its existence
\* check, and a cast writes the ledger, only while no other thread is inside
\* a cast, and two threads are never inside a cast together.
C24_CastsDoNotInterleave ==
  [][ /\ (CastBeginStep /\ last'.outcome \notin BeforeLock)
         => \A t \in Threads \ {last'.thread} : pc[t] \notin InCast
      /\ CastFinishStep
         => \A t \in Threads \ {last'.thread} : pc[t] \notin InCast
      /\ \A t, u \in Threads :
           (pc'[t] \in InCast /\ pc'[u] \in InCast) => t = u ]_vars

\* The GUI cast passed its existence check after another cast had written
\* its entry, while the RPC thread is not inside a cast.
C24_Witness ==
  /\ pc["gui"] = "voteWait"
  /\ lock = "gui"
  /\ Len(ledger) = 1
  /\ ledger[1].voteID # loc["gui"].vote_id
  /\ pc["rpc"] \notin InCast


\* C25 (as stated): every handler that has sent its request and waits for the
\* client to be ready returns in the end, whether or not the coordination
\* service answers.
C25_WaitReturns ==
  \A t \in Threads : (pc[t] # "idle") ~> (pc[t] = "idle")


\* C26: one cast sends at most one CAST_VOTE. The call sends one request or
\* none; a CAST_VOTE comes into flight only by the call of a cast that is
\* submitted; the step that ends the cast's wait, whatever its outcome,
\* sends no CAST_VOTE and leaves the thread outside the wait for one.
C26_NoResubmission ==
  [][ /\ CastBeginStep
         => /\ last'.sent <= 1
            /\ (last'.outcome = "Submitted") = (last'.sent = 1)
      /\ (HandlerStep /\ last'.sent > 0 /\ g_governance'.request.kind = CAST_VOTE)
         => CastBeginStep /\ last'.outcome = "Submitted"
      /\ CastFinishStep
         => /\ g_governance'.request.kind # CAST_VOTE
            /\ pc'[last'.thread] \notin {"postWait", "voteWait"}
            /\ last'.outcome \in {"RequestFailed", "Success"} ]_vars

\* An RPC cast has ended with weight zero: nothing is in flight, nobody waits.
C26_Witness ==
  /\ last.op = "postoffchainproposals"
  /\ last.outcome = "Success"
  /\ last.weight = 0
  /\ g_governance.request = NoRequest
  /\ \A t \in Threads : pc[t] = "idle"


C28_EraseAll ==
  [][ /\ (HandlerStep /\ last'.op = "erasegoventries" /\ last'.outcome = "Erased")
         => /\ last'.weight = Len(ledger)
            /\ ledger' = <<>>
            /\ \A v \in VoteIds : ~Exists(ledger', v)
            /\ \A v \in VoteIds, d \in RpcDecisions, a \in RpcAnswers :
                 RpcCastPre(Net, mapWallet, ledger', now, v, d, a.unlocked,
                            a.fault).outcome # "AlreadyVoted"
            /\ \A sel \in rows, d \in GuiDecisions, a \in GuiAnswers :
                 GuiCastPre(Net, mapWallet, ledger', synced, sel, d, a.unlockOk,
                            a.confirmed, a.fault).outcome # "AlreadyVoted"
      /\ (CastBeginStep /\ last.op = "erasegoventries" /\ last.outcome = "Erased")
         => last'.outcome # "AlreadyVoted" ]_vars

\* An erasegoventries has erased the two entries the ledger held.
C28_Witness ==
  /\ last.op = "erasegoventries"
  /\ last.outcome = "Erased"
  /\ last.weight = 2
  /\ ledger = <<>>


\* The deadline updateProposalList computes has passed: that of the filter
\* change while the filter flag is set, that of the last list update
\* otherwise (the time of the call when the list was never updated).
DeadlinePassed ==
  IF fFilterUpdated
  THEN now >= nTimeFilterUpdated + FILTER_COOLDOWN_SECONDS
  ELSE /\ nTimeListUpdated # NotYet
       /\ now >= nTimeListUpdated + UPDATE_SECONDS

\* C29: a run of updateProposalList that gets its lock and finds the deadline
\* passed sends one GET_PROPOSALS, records the time as that of the list
\* update, clears the filter flag and renders; it does not end waiting. With
\* the flag clear, a run before UPDATE_SECONDS have passed since the recorded
\* time sends nothing.
C29_FetchOnExpiry ==
  [][ /\ (UpdateProposalListStep /\ last'.outcome # "NoLock" /\ DeadlinePassed)
         => /\ last'.outcome = "Fetched"
            /\ last'.sent = 1
            /\ g_governance'.request.kind = GET_PROPOSALS
            /\ nTimeListUpdated' = now
            /\ ~fFilterUpdated'
            /\ ~DeadlinePassed'
      /\ (UpdateProposalListStep /\ last'.outcome # "NoLock" /\ ~DeadlinePassed)
         => /\ last'.outcome = "Waiting"
            /\ last'.sent = 0
            /\ g_governance' = g_governance ]_vars

\* The list was fetched after a filter change, and the run that followed
\* within UPDATE_SECONDS, the filter flag clear, fetched nothing.
C29_Witness ==
  /\ last.op = "updateProposalList"
  /\ last.outcome = "Waiting"
  /\ strCurrentFilter # ""
  /\ ~fFilterUpdated
  /\ nTimeListUpdated # NotYet
  /\ nTimeListUpdated < now
  /\ now < nTimeListUpdated + UPDATE_SECONDS


\* C30 (as stated): the refresh button's handler sends exactly one
\* GET_PROPOSALS, which it does at the click whatever the timers say, and
\* after its wait, cs_mnlist acquired, shows the rows of the proposals that
\* request brought.
C30_ExplicitRefresh ==
  [][ /\ (HandlerStep /\ last'.op = "refresh" /\ pc["gui"] = "idle")
         => /\ last'.sent = 1
            /\ g_governance'.request.kind = GET_PROPOSALS
      /\ (HandlerStep /\ last'.op = "refresh" /\ pc["gui"] = "refreshWait"
            /\ last'.outcome # "NoLock")
         => /\ last'.sent = 0
            /\ rows' = RenderRows(g_governance.proposals, strCurrentFilter) ]_vars


\* C31: a cast whose exchange succeeded with no matching weight leaves the
\* ledger as it was, without an entry for its vote identifier: a cast on that
\* identifier from the state it leaves, the wallet unlocked, the vote
\* confirmed and the keys at hand, is submitted again with a CAST_VOTE, and
\* so is the cast that follows it directly unless it stops for another cause.
C31_ZeroWeightNotRecorded ==
  [][ /\ (CastFinishStep /\ g_governance.statusOK
            /\ VoteWeight(g_governance.votes, 1, loc[last'.thread].vote_id, 0) = 0)
         => /\ last'.outcome = "Success"
            /\ last'.weight = 0
            /\ ledger' = ledger
            /\ ~Exists(ledger', last'.vote_id)
            /\ \A d \in RpcDecisions :
                 LET r == RpcCastPre(Net, mapWallet, ledger', now,
                                     last'.vote_id, d, TRUE, NoFault)
                 IN r.outcome = "Submitted" /\ r.n.g.request.kind = CAST_VOTE
            /\ \A sel \in rows, d \in GuiDecisions :
                 SelectedVoteId(g_governance.proposals, 1, sel) = last'.vote_id
                 => LET r == GuiCastPre(Net, mapWallet, ledger', TRUE, sel, d,
                                        TRUE, TRUE, NoFault)
                    IN r.outcome = "Submitted" /\ r.n.g.request.kind = CAST_VOTE
      /\ (/\ CastBeginStep
          /\ IsCast(last) /\ last.outcome = "Success" /\ last.weight = 0
          /\ last'.vote_id = last.vote_id
          /\ last'.outcome \notin GateOutcomes \cup SignErrors \cup {"Declined"})
         => /\ last'.outcome = "Submitted"
            /\ last'.sent = 1
            /\ g_governance'.request.kind = CAST_VOTE ]_vars

\* A cast ended in success with weight zero while the ledger holds the entry
\* of another vote and none of its own.
C31_Witness ==
  /\ IsCast(last)
  /\ last.outcome = "Success"
  /\ last.weight = 0
  /\ ledger # <<>>
  /\ ~Exists(ledger, last.vote_id)


\* C32 (as stated): no entry of the ledger has weight zero, and an entry is
\* written by a cast with the sum of the weights of the matching records that
\* the service returned for that cast's own CAST_VOTE.
C32_EntryWeight ==
  [][ /\ \A i \in 1 .. Len(ledger') : ledger'[i].voteWeight # 0
      /\ (CastFinishStep /\ ledger' # ledger)
         => LET v == loc[last'.thread].vote_id
                M == Matching(g_governance.votes, v)
            IN /\ EntryOf(ledger', v).voteWeight
                    = SumOver(M, [i \in M |->
                                    WeightValue(g_governance.votes[i].weight)])
               /\ loc[last'.thread].returned ]_vars


\* C33 (as stated): a GUI vote that is rejected by the ledger check or sends
\* its CAST_VOTE uses a vote identifier that is not empty and is that of a
\* proposal the buffer holds at the time of the vote.
C33_SelectedProposalPresent ==
  [][ (CastBeginStep /\ last'.op = "vote"
         /\ last'.outcome \in {"AlreadyVoted", "Submitted"})
      => /\ last'.vote_id # ""
         /\ \E i \in 1 .. Len(g_governance.proposals) :
              g_governance.proposals[i].vote_id = last'.vote_id
         /\ (g_governance'.request.kind = CAST_VOTE)
            => \A i \in 1 .. Len(ParsePayload(g_governance'.request.payload).ballots) :
                 ParsePayload(g_governance'.request.payload).ballots[i].voteid # "" ]_vars

\* C34: a GUI vote whose unlock request is cancelled, or whose confirmation is
\* not answered with Yes, returns at that point: it sends no request, and the
\* ledger, the client's buffers and flags, the position of both threads and
\* the locks are as they were.
C34_CancelledVoteChangesNothing ==
  [][ (CastBeginStep /\ last'.op = "vote"
         /\ last'.outcome \in {"UnlockCancelled", "Declined"})
      => /\ last'.sent = 0
         /\ last'.weight = NoWeight
         /\ ledger' = ledger
         /\ g_governance' = g_governance
         /\ UNCHANGED << pc, loc, lock, mapWallet >> ]_vars

\* A vote on a listed proposal, from a wallet with voting addresses and no
\* entry for it, was declined in the confirmation dialog.
C34_Witness ==
  /\ last.op = "vote"
  /\ last.outcome = "Declined"
  /\ last.vote_id \in VoteIds
  /\ ~Exists(ledger, last.vote_id)
  /\ GuiVotingAddresses(mapWallet, 1, <<>>) # <<>>

\* C35 (as stated): erasegoventries is all-or-nothing: when the erase of an
\* entry fails, the error is reported and the ledger still holds every entry
\* it held before the call.
C35_EraseAllOrNothing ==
  [][ (HandlerStep /\ last'.op = "erasegoventries"
         /\ last'.outcome = "EraseFailed")
      => ledger' = ledger ]_vars

\* C36: a run of updateProposalList that does not get cs_mnlist, or that finds
\* its deadline not reached, sends no request and leaves the client, the flag
\* fFilterUpdated and a set nTimeListUpdated as they were; nTimeListUpdated is
\* first set, to the current time, by the first run that gets the lock, so
\* that with the filter flag clear that run sends nothing and no run sends
\* GET_PROPOSALS before UPDATE_SECONDS have passed since then.
C36_NoFetchBeforeDeadline ==
  [][ UpdateProposalListStep
      => /\ last'.outcome = "NoLock"
            => /\ last'.sent = 0
               /\ g_governance' = g_governance
               /\ UNCHANGED cacheVars
         /\ (last'.outcome # "NoLock" /\ ~DeadlinePassed)
            => /\ last'.outcome = "Waiting"
               /\ last'.sent = 0
               /\ g_governance' = g_governance
               /\ fFilterUpdated' = fFilterUpdated
               /\ nTimeListUpdated' = IF nTimeListUpdated = NotYet THEN now
                                      ELSE nTimeListUpdated
         /\ (nTimeListUpdated = NotYet /\ ~fFilterUpdated)
            => /\ last'.sent = 0
               /\ nTimeListUpdated' \in {NotYet, now}
         /\ (last'.sent > 0 /\ ~fFilterUpdated)
            => /\ nTimeListUpdated # NotYet
               /\ now >= nTimeListUpdated + UPDATE_SECONDS ]_vars

\* The filter text was never changed; a second after the first run of
\* updateProposalList that got the lock, another run got the lock, waited and
\* sent nothing; no request has been issued since start-up.
C36_Witness ==
  /\ g_governance.request = NoRequest
  /\ last.op = "updateProposalList"
  /\ last.outcome = "Waiting"
  /\ last.sent = 0
  /\ strCurrentFilter = ""
  /\ ~fFilterUpdated
  /\ nTimeListUpdated # NotYet
  /\ now = nTimeListUpdated + 1
  /\ now < nTimeListUpdated + UPDATE_SECONDS

====
